---- MODULE Spec2Model ----
(***************************************************************************)
(* Model of the dictation-audio generator in src/app.py: the word-list     *)
(* parser, translation resolution, per-word audio composition, silence     *)
(* trimming and the final track assembly of run_main_app.                  *)
(*                                                                         *)
(* Text is a sequence of one-character strings.  "FW" stands for the       *)
(* full-width comma U+FF0C, "X" and "Y" for CJK characters.                *)
(***************************************************************************)
EXTENDS Integers, Sequences, FiniteSets, TLC

VARIABLES pText, pOut, pPc,           \* parser alone: file text, parsed entries, position
          tBuf, tOnce, tTwice, tPc,     \* trimmer alone: buffer, trimmed once, trimmed twice, position
          cIn, cOut, cPc,               \* composer alone: arguments, returned block, position
          \* one run of the "generate" button handler of run_main_app
          rLines,                       \* the lines of /tmp/process_list.txt
          cfg,                          \* the sidebar values
          pc, idx,                      \* position in the handler and loop index
          ordered_words_data, words_to_translate, newly_translated_words,
          lookups,                      \* log of the get_translation calls
          requests,                     \* log of the requests sent to the translation provider
          words_data_for_audio, words_to_process,
          composed,                     \* log of the generate_word_audio calls
          combined_audio_segment,
          outcome,                      \* message the run ended with
          exported                      \* the encoded tracks handed to the player

parseVars == <<pText, pOut, pPc>>
trimVars == <<tBuf, tOnce, tTwice, tPc>>
composeVars == <<cIn, cOut, cPc>>
runVars == <<rLines, cfg, pc, idx, ordered_words_data, words_to_translate,
             newly_translated_words, lookups, requests, words_data_for_audio,
             words_to_process, composed, combined_audio_segment, outcome, exported>>
vars == <<pText, pOut, pPc, tBuf, tOnce, tTwice, tPc, cIn, cOut, cPc,
          rLines, cfg, pc, idx, ordered_words_data, words_to_translate,
          newly_translated_words, lookups, requests, words_data_for_audio,
          words_to_process, composed, combined_audio_segment, outcome, exported>>

ParseIdle == pText = <<>> /\ pOut = <<>> /\ pPc = "off"
TrimIdle == tBuf = <<>> /\ tOnce = <<>> /\ tTwice = <<>> /\ tPc = "off"
ComposeIdle == cIn = <<>> /\ cOut = <<>> /\ cPc = "off"
RunIdle == /\ rLines = <<>> /\ cfg = <<>> /\ pc = "off" /\ idx = 0
           /\ ordered_words_data = <<>> /\ words_to_translate = <<>>
           /\ newly_translated_words = <<>> /\ lookups = <<>> /\ requests = <<>>
           /\ words_data_for_audio = <<>> /\ words_to_process = <<>> /\ composed = <<>>
           /\ combined_audio_segment = <<>> /\ outcome = "none" /\ exported = <<>>

(* ---------------- bounds ---------------- *)
MaxTextLen == 5
MaxRuns == 5
RunMs == 5
MaxWordLen == 2
MaxRepeat == 2
VoicedMs == 70
MaxLines == 3
MaxLimit == 2

(* ---------------- text helpers (Python str methods) ---------------- *)
Whitespace == {" ", "\n"}
\* str.isalpha is true of letters of any script, false of digits, spaces, punctuation
Alpha == {"a", "b", "c", "t", "X", "Y"}
ParseChars == {"a", " ", ",", "FW", "\n"}

RECURSIVE LStrip(_)
LStrip(s) == IF s = <<>> THEN <<>>
             ELSE IF Head(s) \in Whitespace THEN LStrip(Tail(s)) ELSE s

RECURSIVE RStrip(_)
RStrip(s) == IF s = <<>> THEN <<>>
             ELSE IF s[Len(s)] \in Whitespace THEN RStrip(SubSeq(s, 1, Len(s) - 1)) ELSE s

\* str.strip()
Strip(s) == RStrip(LStrip(s))

\* str.replace(old, new) for single characters
Replace(s, old, new) == [i \in 1..Len(s) |-> IF s[i] = old THEN new ELSE s[i]]

\* index of the first occurrence of a character of cs in s, 0 when there is none
RECURSIVE FindFrom(_, _, _)
FindFrom(s, cs, i) == IF i > Len(s) THEN 0
                      ELSE IF s[i] \in cs THEN i ELSE FindFrom(s, cs, i + 1)

\* variant: str.rsplit(',', 1), splitting at the last comma
SplitAtLastComma(s) ==
  LET commas == {i \in 1..Len(s) : s[i] = ","}
      k == IF commas = {} THEN 0 ELSE CHOOSE i \in commas : \A j \in commas : j <= i
  IN IF k = 0 THEN <<s>> ELSE <<SubSeq(s, 1, k - 1), SubSeq(s, k + 1, Len(s))>>

\* str.split(',', 1): at most one split, at the first comma
SplitFirstComma(s) ==
  LET k == FindFrom(s, {","}, 1)
  IN IF k = 0 THEN <<s>> ELSE <<SubSeq(s, 1, k - 1), SubSeq(s, k + 1, Len(s))>>

(* ---------------- the parsing loop of run_main_app ---------------- *)
\* one iteration of "for line in f": acc is [ordered, to_translate]
ParseLine(acc, line) ==
  LET stripped_line == Strip(line) IN
  IF stripped_line = <<>> THEN acc
  ELSE LET parts == SplitFirstComma(Replace(stripped_line, "FW", ","))
           english_word == Strip(parts[1])
           chinese_translation == IF Len(parts) > 1 THEN Strip(parts[2]) ELSE <<>>
       IN [ordered |-> Append(acc.ordered, <<english_word, chinese_translation>>),
           to_translate |-> IF chinese_translation = <<>>
                            THEN Append(acc.to_translate, english_word)
                            ELSE acc.to_translate]

RECURSIVE ParseFrom(_, _)
ParseFrom(acc, lines) == IF lines = <<>> THEN acc
                         ELSE ParseFrom(ParseLine(acc, Head(lines)), Tail(lines))

ParseLoop(lines) == ParseFrom([ordered |-> <<>>, to_translate |-> <<>>], lines)

\* "for line in f": the lines of a text, each with its newline
RECURSIVE SplitLines(_)
SplitLines(text) ==
  IF text = <<>> THEN <<>>
  ELSE LET k == FindFrom(text, {"\n"}, 1) IN
       IF k = 0 THEN <<text>>
       ELSE <<SubSeq(text, 1, k)>> \o SplitLines(SubSeq(text, k + 1, Len(text)))

(* ---------------- specification of the parser alone ---------------- *)
SeqsUpTo(S, n) == UNION {[1..k -> S] : k \in 0..n}

InitParse == /\ pText \in SeqsUpTo(ParseChars, MaxTextLen)
             /\ pOut = <<>>
             /\ pPc = "start"
             /\ TrimIdle /\ ComposeIdle /\ RunIdle

DoParse == /\ pPc = "start"
           /\ pOut' = ParseLoop(SplitLines(pText)).ordered
           /\ pPc' = "parsed"
           /\ UNCHANGED <<pText, trimVars, composeVars, runVars>>

NextParse == DoParse
SpecParse == InitParse /\ [][NextParse]_vars

(* ---------------- silence trimming ---------------- *)
\* A buffer is a sequence of 16-bit sample amplitudes, one per millisecond.
Min(a, b) == IF a < b THEN a ELSE b
Max(a, b) == IF a > b THEN a ELSE b

chunk_size == 10
\* dBFS < silence_threshold (-40.0): 20*log10(rms/32768) < -40 iff rms < 327.68,
\* and rms is the integer part of the root mean square, so iff rms < 328
SilenceRmsLimit == 328

RECURSIVE SumSq(_)
SumSq(s) == IF s = <<>> THEN 0 ELSE Head(s) * Head(s) + SumSq(Tail(s))

\* chunk.dBFS < silence_threshold, for a non-empty chunk
BelowThreshold(chunk) == SumSq(chunk) < SilenceRmsLimit * SilenceRmsLimit * Len(chunk)

\* Python slicing data[a:b] of a sequence, negative indices counting from the end
PySlice(data, a, b) ==
  LET n == Len(data)
      a1 == IF a < 0 THEN Max(n + a, 0) ELSE Min(a, n)
      b1 == IF b < 0 THEN Max(n + b, 0) ELSE Min(b, n)
  IN IF a1 < b1 THEN SubSeq(data, a1 + 1, b1) ELSE <<>>

\* AudioSegment.__getitem__(slice(start, stop)): both ends are clamped to the
\* length, a negative end is counted from the end (_parse_position)
ParsePosition(sound, val) == IF val < 0 THEN Len(sound) + val ELSE val
GetSlice(sound, start, stop) ==
  PySlice(sound, ParsePosition(sound, Min(start, Len(sound))),
                 ParsePosition(sound, Min(stop, Len(sound))))

Reverse(s) == [i \in 1..Len(s) |-> s[Len(s) + 1 - i]]

RECURSIVE ScanSilence(_, _)
ScanSilence(sound, trim_ms) ==
  IF trim_ms < Len(sound) /\ BelowThreshold(GetSlice(sound, trim_ms, trim_ms + chunk_size))
  THEN ScanSilence(sound, trim_ms + chunk_size)
  ELSE trim_ms

detect_leading_silence(sound) == ScanSilence(sound, 0)

strip_silence(sound) ==
  LET start_trim == detect_leading_silence(sound)
      end_trim == detect_leading_silence(Reverse(sound))
      duration == Len(sound)
  IN GetSlice(sound, start_trim, duration - end_trim)

(* ---------------- specification of the trimmer alone ---------------- *)
Amps == {0, 300, 400}

RECURSIVE Expand(_)
Expand(runs) == IF runs = <<>> THEN <<>>
                ELSE [i \in 1..RunMs |-> Head(runs)] \o Expand(Tail(runs))

\* create_audio_segment trims only buffers of non-zero length
TrimInputs == {Expand(r) : r \in UNION {[1..k -> Amps] : k \in 1..MaxRuns}}

InitTrim == /\ tBuf \in TrimInputs
            /\ tOnce = <<>>
            /\ tTwice = <<>>
            /\ tPc = "start"
            /\ ParseIdle /\ ComposeIdle /\ RunIdle

TrimOnce == /\ tPc = "start"
            /\ tOnce' = strip_silence(tBuf)
            /\ tPc' = "once"
            /\ UNCHANGED <<tBuf, tTwice, parseVars, composeVars, runVars>>

TrimAgain == /\ tPc = "once"
             /\ tTwice' = strip_silence(tOnce)
             /\ tPc' = "twice"
             /\ UNCHANGED <<tBuf, tOnce, parseVars, composeVars, runVars>>

NextTrim == TrimOnce \/ TrimAgain
SpecTrim == InitTrim /\ [][NextTrim]_vars

(* ---------- C7 ---------- *)
\* C7: silence trimming is idempotent: trimming a trimmed buffer returns it
\* unchanged, for buffers of every length.
C7_TrimIdempotent == tPc = "twice" => tTwice = tOnce


(* ---------------- audio segments ---------------- *)
\* An AudioSegment is a sequence of pieces of non-zero duration: silence, or
\* speech of a text in a voice at a rate.  Adjacent silence is one silence.
Piece(kind, text, voice, rate, ms) ==
  [kind |-> kind, text |-> text, voice |-> voice, rate |-> rate, ms |-> ms]

\* AudioSegment.empty()
EmptyAudio == <<>>

\* AudioSegment.silent(duration=d)
Silent(d) == IF d = 0 THEN <<>> ELSE <<Piece("sil", <<>>, "", "", d)>>

\* a + b (append with no crossfade)
Concat(a, b) ==
  IF a = <<>> THEN b
  ELSE IF b = <<>> THEN a
  ELSE IF a[Len(a)].kind = "sil" /\ b[1].kind = "sil"
       THEN SubSeq(a, 1, Len(a) - 1) \o Silent(a[Len(a)].ms + b[1].ms) \o Tail(b)
       ELSE a \o b

\* sum(list) of segments: 0 + first is first
RECURSIVE SumAudio(_)
SumAudio(list) == IF list = <<>> THEN EmptyAudio
                  ELSE Concat(SumAudio(SubSeq(list, 1, Len(list) - 1)), list[Len(list)])

RECURSIVE AudioLen(_)
AudioLen(a) == IF a = <<>> THEN 0 ELSE Head(a).ms + AudioLen(Tail(a))

RECURSIVE SilenceLen(_)
SilenceLen(a) == IF a = <<>> THEN 0
                 ELSE (IF Head(a).kind = "sil" THEN Head(a).ms ELSE 0) + SilenceLen(Tail(a))

(* ---------------- speech synthesis ---------------- *)
\* What one call of the provider does: it raises, it yields a buffer that is
\* empty (or is trimmed to nothing), or it yields speech.
TtsOutcomes == {"raise", "empty", "voiced"}

FailSilenceMs == 200

\* variant: no except clause, the failure reaches the caller
create_audio_segment_uncaught(text, lang, slow, is_spelling, result) ==
  LET voice == IF lang = "zh" THEN "zh-CN-XiaoxiaoNeural" ELSE "en-US-JennyNeural"
      rate == IF is_spelling THEN "+50%" ELSE IF slow THEN "-20%" ELSE "+0%"
  IN IF result = "raise" THEN [raised |-> TRUE, audio |-> EmptyAudio]
     ELSE IF result = "empty" THEN [raised |-> FALSE, audio |-> EmptyAudio]
     ELSE [raised |-> FALSE, audio |-> <<Piece("tts", text, voice, rate, VoicedMs)>>]

\* returns [raised, audio]; the except clause turns every failure into silence
create_audio_segment(text, lang, slow, is_spelling, result) ==
  LET voice == IF lang = "zh" THEN "zh-CN-XiaoxiaoNeural" ELSE "en-US-JennyNeural"
      rate == IF is_spelling THEN "+50%" ELSE IF slow THEN "-20%" ELSE "+0%"
  IN IF result = "raise" THEN [raised |-> FALSE, audio |-> Silent(FailSilenceMs)]
     ELSE IF result = "empty" THEN [raised |-> FALSE, audio |-> EmptyAudio]
     ELSE [raised |-> FALSE, audio |-> <<Piece("tts", text, voice, rate, VoicedMs)>>]

(* ---------------- the word composer ---------------- *)
\* ''.join(filter(str.isalpha, word))
CleanWord(word) == SelectSeq(word, LAMBDA ch : ch \in Alpha)

\* the loop over clean_word; tts[k] is the outcome of the k-th synthesis call,
\* calls 1 and 2 being the normal and the slow reading of the word
RECURSIVE SpellingSegments(_, _, _, _)
SpellingSegments(clean_word, i, spell_pause_ms, tts) ==
  IF i > Len(clean_word) THEN <<>>
  ELSE LET char_audio == create_audio_segment(<<clean_word[i]>>, "en", FALSE, TRUE, tts[2 + i])
       IN <<char_audio>> \o
          (IF spell_pause_ms > 0
           THEN <<[raised |-> FALSE, audio |-> Silent(spell_pause_ms)]>> ELSE <<>>) \o
          SpellingSegments(clean_word, i + 1, spell_pause_ms, tts)

\* variant: the last pause is not dropped
SpellingCombinedKeepLast(segments, spell_pause_ms) ==
  IF segments = <<>> THEN EmptyAudio
  ELSE SumAudio([i \in 1..Len(segments) |-> segments[i].audio])

SpellingCombined(segments, spell_pause_ms) ==
  IF segments = <<>> THEN EmptyAudio
  ELSE IF spell_pause_ms > 0
       THEN SumAudio([i \in 1..(Len(segments) - 1) |-> segments[i].audio])
       ELSE SumAudio([i \in 1..Len(segments) |-> segments[i].audio])

RECURSIVE Repeat(_, _, _)
Repeat(acc, audio, n) == IF n = 0 THEN acc ELSE Repeat(Concat(acc, audio), audio, n - 1)

generate_word_audio(word, translation, repeat_count, slow_speed, spell_pause_ms, word_pause_ms, tts) ==
  LET full_word_audio_normal == create_audio_segment(word, "en", FALSE, FALSE, tts[1])
      full_word_audio_slow == create_audio_segment(word, "en", TRUE, FALSE, tts[2])
      clean_word == CleanWord(word)
      spelling_audio_segments == SpellingSegments(clean_word, 1, spell_pause_ms, tts)
      spelling_combined == SpellingCombined(spelling_audio_segments, spell_pause_ms)
      spoken == IF ~slow_speed THEN full_word_audio_normal.audio ELSE full_word_audio_slow.audio
      chinese_audio == create_audio_segment(translation, "zh", FALSE, FALSE, tts[3 + Len(clean_word)])
      a1 == Repeat(EmptyAudio, spoken, repeat_count)
      a2 == Concat(a1, Silent(word_pause_ms))
      a3 == Concat(a2, spelling_combined)
      a4 == Concat(a3, Silent(word_pause_ms))
      a5 == Concat(a4, spoken)
      a6 == Concat(a5, Silent(word_pause_ms))
      a7 == IF translation # <<>> THEN Concat(a6, chinese_audio.audio) ELSE a6
      a8 == Concat(a7, Silent(word_pause_ms * 2))
  IN [raised |-> \/ full_word_audio_normal.raised
                 \/ full_word_audio_slow.raised
                 \/ \E i \in 1..Len(spelling_audio_segments) : spelling_audio_segments[i].raised
                 \/ (translation # <<>> /\ chinese_audio.raised),
      audio |-> a8]

(* ---------------- specification of the composer alone ---------------- *)
WordChars == {"a", "b", "'"}
ComposeWords == SeqsUpTo(WordChars, MaxWordLen)
Translations == {<<>>, <<"X">>}
RepeatCounts == 1..MaxRepeat
SpellPauses == {0, 20}
WordPauses == {0, 300}
MaxCalls == MaxWordLen + 3

InitCompose ==
  /\ cIn \in [word : ComposeWords, translation : Translations, repeat_count : RepeatCounts,
              slow_speed : BOOLEAN, spell_pause_ms : SpellPauses, word_pause_ms : WordPauses,
              tts : [1..MaxCalls -> TtsOutcomes]]
  \* a call that is not made has no outcome
  /\ \A k \in 1..MaxCalls :
       k > 2 + Len(CleanWord(cIn.word)) + (IF cIn.translation = <<>> THEN 0 ELSE 1)
         => cIn.tts[k] = "voiced"
  /\ cOut = <<>>
  /\ cPc = "start"
  /\ ParseIdle /\ TrimIdle /\ RunIdle

Compose ==
  /\ cPc = "start"
  /\ cOut' = generate_word_audio(cIn.word, cIn.translation, cIn.repeat_count, cIn.slow_speed,
                                 cIn.spell_pause_ms, cIn.word_pause_ms, cIn.tts)
  /\ cPc' = "composed"
  /\ UNCHANGED <<cIn, parseVars, trimVars, runVars>>

NextCompose == Compose
SpecCompose == InitCompose /\ [][NextCompose]_vars

(* ---------------- translation ---------------- *)
\* What one request to the provider does: it returns a translation, or it raises.
ProviderOutcomes == {"ok", "raise"}
\* the text the provider returns for a word
ProviderText == <<"Y">>

\* variant: a failed request is followed by a request to a second target
get_translation_with_fallback(text, result) ==
  IF result = "ok"
  THEN [is_none |-> FALSE, text |-> ProviderText,
        requests |-> <<[text |-> text, source |-> "auto", target |-> "zh-CN"]>>]
  ELSE [is_none |-> TRUE, text |-> <<>>,
        requests |-> <<[text |-> text, source |-> "auto", target |-> "zh-CN"],
                       [text |-> text, source |-> "auto", target |-> "zh-TW"]>>]

\* returns the translation, or None when the request raised, and the requests made
get_translation(text, result) ==
  IF result = "ok"
  THEN [is_none |-> FALSE, text |-> ProviderText,
        requests |-> <<[text |-> text, source |-> "auto", target |-> "zh-CN"]>>]
  ELSE [is_none |-> TRUE, text |-> <<>>,
        requests |-> <<[text |-> text, source |-> "auto", target |-> "zh-CN"]>>]

(* ---------------- the lookup table and the entries for audio ---------------- *)
DictSet(d, k, v) == [x \in (DOMAIN d) \cup {k} |-> IF x = k THEN v ELSE d[x]]

\* a dict filled from (key, value) pairs in order; a later pair overwrites
RECURSIVE DictUpdate(_, _)
DictUpdate(d, pairs) ==
  IF pairs = <<>> THEN d
  ELSE DictUpdate(DictSet(d, Head(pairs)[1], Head(pairs)[2]), Tail(pairs))

EmptyDict == [x \in {} |-> <<>>]

FinalWordsDict(ordered, newly) == DictUpdate(DictUpdate(EmptyDict, ordered), newly)

\* final_words_dict.get(word, "")
DictGet(d, word) == IF word \in DOMAIN d THEN d[word] ELSE <<>>

\* variant: entries left without a translation are dropped
WordsDataDroppingEmpty(ordered, d) ==
  SelectSeq([i \in 1..Len(ordered) |-> <<ordered[i][1], DictGet(d, ordered[i][1])>>],
            LAMBDA e : e[2] # <<>>)

WordsDataForAudio(ordered, d) ==
  [i \in 1..Len(ordered) |-> <<ordered[i][1], DictGet(d, ordered[i][1])>>]

\* variant: words_data_for_audio[:limit + 1]
LimitedOneMore(data, words_per_file) ==
  LET limit == IF words_per_file > 0 THEN words_per_file ELSE Len(data)
  IN SubSeq(data, 1, Min(limit + 1, Len(data)))

\* words_data_for_audio[:limit]
Limited(data, words_per_file) ==
  LET limit == IF words_per_file > 0 THEN words_per_file ELSE Len(data)
  IN SubSeq(data, 1, Min(limit, Len(data)))

\* variant: the track is exported whatever its length
ShouldExportAlways(audio) == TRUE

\* len(combined_audio_segment) > 0
ShouldExport(audio) == AudioLen(audio) > 0

(* ---------------- one run of the handler ---------------- *)
RunLineSet == { <<"a">>, <<"a", ",", "X">>, <<"b">>, <<" ">> }
RunPacing == {<<1, 0>>, <<2, 300>>}
RunConfigs == {[words_per_file |-> k, repeat_count |-> p[1], slow_speed |-> FALSE,
                spell_pause_ms |-> 20, word_pause_ms |-> p[2]] : k \in 0..MaxLimit, p \in RunPacing}
\* in a run every synthesis of one block has the same outcome
RunTts == {[k \in 1..MaxCalls |-> o] : o \in TtsOutcomes}

InitRun ==
  /\ rLines \in SeqsUpTo(RunLineSet, MaxLines)
  /\ cfg \in RunConfigs
  /\ pc = "start" /\ idx = 0
  /\ ordered_words_data = <<>> /\ words_to_translate = <<>>
  /\ newly_translated_words = <<>> /\ lookups = <<>> /\ requests = <<>>
  /\ words_data_for_audio = <<>> /\ words_to_process = <<>> /\ composed = <<>>
  /\ combined_audio_segment = EmptyAudio /\ outcome = "none" /\ exported = <<>>
  /\ ParseIdle /\ TrimIdle /\ ComposeIdle

others == <<parseVars, trimVars, composeVars>>

\* the file cannot be read or decoded
ReadError ==
  /\ pc = "start"
  /\ outcome' = "read_error"
  /\ pc' = "done"
  /\ UNCHANGED <<rLines, cfg, idx, ordered_words_data, words_to_translate,
                 newly_translated_words, lookups, requests, words_data_for_audio,
                 words_to_process, composed, combined_audio_segment, exported, others>>

ReadWords ==
  /\ pc = "start"
  /\ LET parsed == ParseLoop(rLines) IN
     /\ ordered_words_data' = parsed.ordered
     /\ words_to_translate' = parsed.to_translate
  /\ pc' = "translate"
  /\ idx' = 1
  /\ UNCHANGED <<rLines, cfg, newly_translated_words, lookups, requests,
                 words_data_for_audio, words_to_process, composed,
                 combined_audio_segment, outcome, exported, others>>

\* one iteration of the loop over words_to_translate
TranslateWord ==
  /\ pc = "translate"
  /\ idx <= Len(words_to_translate)
  /\ \E o \in ProviderOutcomes :
       LET word == words_to_translate[idx]
           res == get_translation(word, o)
           trans_text == IF res.is_none THEN <<>> ELSE res.text
       IN /\ newly_translated_words' =
               Append(newly_translated_words,
                      IF trans_text # <<>> THEN <<word, trans_text>> ELSE <<word, <<>>>>)
          /\ lookups' = Append(lookups, [word |-> word, failed |-> res.is_none,
                                         nreq |-> Len(res.requests)])
          /\ requests' = requests \o res.requests
  /\ idx' = idx + 1
  /\ UNCHANGED <<rLines, cfg, pc, ordered_words_data, words_to_translate,
                 words_data_for_audio, words_to_process, composed,
                 combined_audio_segment, outcome, exported, others>>

\* "if not words_data_for_audio": nothing to do
NoData ==
  /\ pc = "translate"
  /\ idx > Len(words_to_translate)
  /\ LET data == WordsDataForAudio(ordered_words_data,
                                   FinalWordsDict(ordered_words_data, newly_translated_words))
     IN /\ data = <<>>
        /\ words_data_for_audio' = data
  /\ outcome' = "no_data"
  /\ pc' = "done"
  /\ UNCHANGED <<rLines, cfg, idx, ordered_words_data, words_to_translate,
                 newly_translated_words, lookups, requests, words_to_process, composed,
                 combined_audio_segment, exported, others>>

MergeAndLimit ==
  /\ pc = "translate"
  /\ idx > Len(words_to_translate)
  /\ LET data == WordsDataForAudio(ordered_words_data,
                                   FinalWordsDict(ordered_words_data, newly_translated_words))
     IN /\ data # <<>>
        /\ words_data_for_audio' = data
        /\ words_to_process' = Limited(data, cfg.words_per_file)
  /\ pc' = "generate"
  /\ idx' = 1
  /\ UNCHANGED <<rLines, cfg, ordered_words_data, words_to_translate,
                 newly_translated_words, lookups, requests, composed,
                 combined_audio_segment, outcome, exported, others>>

\* one iteration of the loop over words_to_process
GenerateWord ==
  /\ pc = "generate"
  /\ idx <= Len(words_to_process)
  /\ \E tts \in RunTts :
       LET word == words_to_process[idx][1]
           translation == words_to_process[idx][2]
           word_audio == generate_word_audio(word, translation, cfg.repeat_count, cfg.slow_speed,
                                             cfg.spell_pause_ms, cfg.word_pause_ms, tts)
       IN /\ composed' = Append(composed, [word |-> word, translation |-> translation,
                                           raised |-> word_audio.raised,
                                           audio |-> word_audio.audio])
          /\ combined_audio_segment' =
               IF word_audio.raised THEN combined_audio_segment
               ELSE Concat(combined_audio_segment, word_audio.audio)
  /\ idx' = idx + 1
  /\ UNCHANGED <<rLines, cfg, pc, ordered_words_data, words_to_translate,
                 newly_translated_words, lookups, requests, words_data_for_audio,
                 words_to_process, outcome, exported, others>>

Export ==
  /\ pc = "generate"
  /\ idx > Len(words_to_process)
  /\ ShouldExport(combined_audio_segment)
  /\ exported' = Append(exported, combined_audio_segment)
  /\ outcome' = "success"
  /\ pc' = "done"
  /\ UNCHANGED <<rLines, cfg, idx, ordered_words_data, words_to_translate,
                 newly_translated_words, lookups, requests, words_data_for_audio,
                 words_to_process, composed, combined_audio_segment, others>>

GenerationFailed ==
  /\ pc = "generate"
  /\ idx > Len(words_to_process)
  /\ ~ShouldExport(combined_audio_segment)
  /\ outcome' = "failed"
  /\ pc' = "done"
  /\ UNCHANGED <<rLines, cfg, idx, ordered_words_data, words_to_translate,
                 newly_translated_words, lookups, requests, words_data_for_audio,
                 words_to_process, composed, combined_audio_segment, exported, others>>

Next == \/ ReadError \/ ReadWords \/ TranslateWord \/ NoData \/ MergeAndLimit
        \/ GenerateWord \/ Export \/ GenerationFailed
Spec == InitRun /\ [][Next]_vars

(* ---------------- helpers of the properties ---------------- *)
IsBlank(l) == \A i \in 1..Len(l) : l[i] \in Whitespace
RECURSIVE NonBlank(_)
NonBlank(lines) == IF lines = <<>> THEN <<>>
                   ELSE IF IsBlank(Head(lines)) THEN NonBlank(Tail(lines))
                   ELSE <<Head(lines)>> \o NonBlank(Tail(lines))

(* ---------- C1 ---------- *)
\* C1: in one run the translation provider is called at most once for each
\* distinct word that has no supplied translation, however many lines carry it.
C1_OneLookupPerWord ==
  \A i, j \in 1..Len(lookups) : lookups[i].word = lookups[j].word => i = j

Generating == pc = "generate" \/ outcome \in {"success", "failed"}

\* C3: failed lookups never stop the run: every queued word is looked up, a
\* word whose lookups all failed gets the empty translation, and the entries
\* handed to audio generation are the parsed entries' words, same length and
\* order.
C3_FailuresIsolated ==
  /\ Generating =>
       /\ Len(lookups) = Len(words_to_translate)
       /\ \A i \in 1..Len(lookups) : lookups[i].word = words_to_translate[i]
       /\ Len(words_data_for_audio) = Len(NonBlank(rLines))
       /\ Len(words_data_for_audio) = Len(ordered_words_data)
       /\ \A i \in 1..Len(ordered_words_data) :
            /\ words_data_for_audio[i][1] = ordered_words_data[i][1]
            /\ (/\ \E k \in 1..Len(lookups) : lookups[k].word = ordered_words_data[i][1]
                /\ \A k \in 1..Len(lookups) :
                     lookups[k].word = ordered_words_data[i][1] => lookups[k].failed)
               => words_data_for_audio[i][2] = <<>>
  /\ (pc = "done" /\ \E k \in 1..Len(lookups) : lookups[k].failed)
       => outcome \in {"success", "failed"}

C3_Witness ==
  /\ pc = "generate"
  /\ rLines = << <<"a">>, <<" ">>, <<"b">> >>
  /\ lookups[1].failed /\ ~lookups[2].failed
  /\ words_data_for_audio = << << <<"a">>, <<>> >>, << <<"b">>, ProviderText >> >>

(* ---------- C5 ---------- *)
\* C5: with maxWords = k > 0 and n entries the composer is called for the first
\* min(k, n) entries only, once each and in order, and the track is exactly
\* those blocks in that order with nothing between; with maxWords = 0 all n
\* entries are composed.
C5_PrefixComposedInOrder ==
  Generating =>
    LET n == Len(words_data_for_audio)
        k == cfg.words_per_file
        m == IF k > 0 THEN (IF k < n THEN k ELSE n) ELSE n
    IN /\ Len(words_to_process) = m
       /\ Len(composed) <= m
       /\ pc = "done" => Len(composed) = m
       /\ \A i \in 1..Len(composed) :
            /\ composed[i].word = words_data_for_audio[i][1]
            /\ composed[i].translation = words_data_for_audio[i][2]
       /\ combined_audio_segment = SumAudio([i \in 1..Len(composed) |-> composed[i].audio])

C5_Witness ==
  /\ pc = "done" /\ outcome = "success"
  /\ cfg.words_per_file = 2
  /\ Len(words_data_for_audio) = 3
  /\ Len(composed) = 2
  /\ composed[1].word = <<"b">> /\ composed[2].word = <<"a">>
  /\ Len(exported) = 1

(* ---------- C8 ---------- *)
\* C8: a track is emitted only when the concatenated audio lasts more than
\* zero; an input without a non-blank line, or blocks that all have zero
\* duration, end the run with a "no audio" outcome and no track.
C8_NoEmptyTrack ==
  /\ \A i \in 1..Len(exported) : AudioLen(exported[i]) > 0
  /\ (exported # <<>>) <=> (outcome = "success")
  /\ (pc = "done" /\ outcome # "read_error" /\ NonBlank(rLines) = <<>>)
       => (outcome = "no_data" /\ exported = <<>>)
  /\ (/\ pc = "done" /\ outcome # "read_error" /\ NonBlank(rLines) # <<>>
      /\ \A i \in 1..Len(composed) : AudioLen(composed[i].audio) = 0)
       => (outcome = "failed" /\ exported = <<>>)

C8_Witness ==
  /\ pc = "done" /\ outcome = "failed"
  /\ Len(composed) = 2
  /\ cfg.word_pause_ms = 0
  /\ exported = <<>>

(* ---------- C10 ---------- *)
\* C10: an entry whose line supplies a translation is generated with a
\* translation supplied in the input for that word, never with a lookup result
\* and never with the empty translation.
C10_SuppliedTranslationKept ==
  Generating =>
    \A i \in 1..Len(ordered_words_data) :
      ordered_words_data[i][2] # <<>> =>
        /\ words_data_for_audio[i][2] # <<>>
        /\ \E j \in 1..Len(ordered_words_data) :
             /\ ordered_words_data[j][1] = ordered_words_data[i][1]
             /\ ordered_words_data[j][2] = words_data_for_audio[i][2]

(* ---------- C4 ---------- *)
\* the positions of the alphabetic characters of a word, in order
RECURSIVE LetterPositions(_, _)
LetterPositions(word, i) ==
  IF i > Len(word) THEN <<>>
  ELSE (IF word[i] \in Alpha THEN <<i>> ELSE <<>>) \o LetterPositions(word, i + 1)

\* letter k .. letter n of the spelling block, a pause after each but the last
RECURSIVE TemplateSpelling(_, _, _)
TemplateSpelling(pos, k, in) ==
  IF k > Len(pos) THEN EmptyAudio
  ELSE Concat(create_audio_segment(<<in.word[pos[k]]>>, "en", FALSE, TRUE, in.tts[2 + k]).audio,
              Concat(IF k < Len(pos) THEN Silent(in.spell_pause_ms) ELSE EmptyAudio,
                     TemplateSpelling(pos, k + 1, in)))

RECURSIVE Copies(_, _)
Copies(audio, n) == IF n = 0 THEN EmptyAudio ELSE Concat(audio, Copies(audio, n - 1))

TemplateBlock(in) ==
  LET pos == LetterPositions(in.word, 1)
      w == create_audio_segment(in.word, "en", in.slow_speed, FALSE,
                                IF in.slow_speed THEN in.tts[2] ELSE in.tts[1]).audio
      zh == IF in.translation = <<>> THEN EmptyAudio
            ELSE create_audio_segment(in.translation, "zh", FALSE, FALSE, in.tts[3 + Len(pos)]).audio
  IN Concat(Copies(w, in.repeat_count),
     Concat(Silent(in.word_pause_ms),
     Concat(TemplateSpelling(pos, 1, in),
     Concat(Silent(in.word_pause_ms),
     Concat(w,
     Concat(Silent(in.word_pause_ms),
     Concat(zh, Silent(2 * in.word_pause_ms))))))))

\* the synthesis calls whose audio is part of the block
UsedCalls(in) ==
  LET n == Len(LetterPositions(in.word, 1)) IN
  {IF in.slow_speed THEN 2 ELSE 1} \cup {2 + k : k \in 1..n}
    \cup (IF in.translation = <<>> THEN {} ELSE {3 + n})

\* C4: generate_word_audio returns repeatCount copies of the word audio, a word
\* pause, the letters of the word in order with a spell pause between
\* consecutive letters only (non-letters skipped, empty when there is no
\* letter), a word pause, the word audio, a word pause, the translation audio
\* iff the translation is non-empty, and a double word pause; with n >= 1
\* letters the inserted silence is 5*wordPauseMs + (n-1)*spellPauseMs.
C4_BlockTemplate ==
  cPc = "composed" =>
    /\ cOut.audio = TemplateBlock(cIn)
    /\ LET n == Len(LetterPositions(cIn.word, 1)) IN
       (n >= 1 /\ \A k \in UsedCalls(cIn) : cIn.tts[k] # "raise")
         => SilenceLen(cOut.audio) = 5 * cIn.word_pause_ms + (n - 1) * cIn.spell_pause_ms

C4_Witness ==
  /\ cPc = "composed"
  /\ cIn.word = <<"a", "b">> /\ cIn.translation = <<>> /\ cIn.repeat_count = 2
  /\ cIn.spell_pause_ms = 20 /\ cIn.word_pause_ms = 300
  /\ \A k \in 1..MaxCalls : cIn.tts[k] = "voiced"
  /\ Len(cOut.audio) = 9
  /\ SilenceLen(cOut.audio) = 1520

(* ---------- C6 ---------- *)
\* C6: a failed synthesis call never raises, it yields 200 ms of silence; when
\* every synthesis of an entry fails the block still holds every pause of the
\* template and lasts more than zero, whatever the pauses are.
C6_FailureIsSilence ==
  cPc = "composed" =>
    /\ ~cOut.raised
    /\ (\A k \in UsedCalls(cIn) : cIn.tts[k] = "raise") =>
         LET n == Len(LetterPositions(cIn.word, 1)) IN
         /\ AudioLen(cOut.audio) > 0
         /\ cOut.audio = Silent(FailSilenceMs * (cIn.repeat_count + 1 + Cardinality(UsedCalls(cIn)) - 1)
                                + 5 * cIn.word_pause_ms
                                + (IF n >= 1 THEN (n - 1) * cIn.spell_pause_ms ELSE 0))

C6_Witness ==
  /\ cPc = "composed"
  /\ \A k \in 1..MaxCalls : cIn.tts[k] = "raise"
  /\ cIn.word_pause_ms = 0 /\ cIn.spell_pause_ms = 0
  /\ cIn.word = <<"a", "b">> /\ cIn.translation # <<>> /\ cIn.repeat_count = 1
  /\ cOut.audio = Silent(1000)

(* ---------- C9 ---------- *)
\* what the spec says one non-blank line yields
ExpectedEntry(l) ==
  LET k == FindFrom(l, {",", "FW"}, 1) IN
  IF k = 0 THEN <<Strip(l), <<>>>>
  ELSE <<Strip(SubSeq(l, 1, k - 1)), Strip(Replace(SubSeq(l, k + 1, Len(l)), "FW", ","))>>

\* C9: parsing yields one entry per non-blank line, in input order, without
\* deduplication; the line is split at its first comma (full-width or ASCII)
\* only, both parts trimmed, later commas kept in the translation; no comma
\* gives an empty translation; a full-width comma parses like an ASCII one;
\* a line of only a comma gives an entry with empty word and translation.
C9_ParseEntries ==
  pPc = "parsed" =>
    LET nb == NonBlank(SplitLines(pText)) IN
    /\ Len(pOut) = Len(nb)
    /\ \A i \in 1..Len(nb) :
         /\ pOut[i] = ExpectedEntry(nb[i])
         /\ FindFrom(nb[i], {",", "FW"}, 1) = 0 => pOut[i][2] = <<>>
         /\ Strip(nb[i]) \in {<<",">>, <<"FW">>} => pOut[i] = << <<>>, <<>> >>
    /\ pOut = ParseLoop(SplitLines(Replace(pText, "FW", ","))).ordered

C9_Witness ==
  /\ pPc = "parsed"
  /\ pText = <<"a", "FW", ",", "\n", " ">>
  /\ pOut = << << <<"a">>, <<",">> >> >>
====
